---- MODULE Spec2Model ----
(***************************************************************************)
(* Model of polyadicqml.Classifier (src/polyadicqml/quantumClassifier.py)  *)
(* and of the manyQ circuit builder (src/polyadicqml/manyq/mqBuilder.py).  *)
(*                                                                         *)
(* Spec: one engine, its public operations, and a training call (fit)      *)
(* unfolded into the steps the external optimizer drives: objective        *)
(* evaluations (to_optimize), the optimizer's per-iteration hook           *)
(* (__callback__), the optimizer returning, and errors propagating out of  *)
(* fit.                                                                    *)
(* CtorSpec: the constructor's handling of its bitstr and nbshots          *)
(* arguments, and predict_proba and predict on the matrix the circuit      *)
(* returns.                                                                *)
(* BuilderSpec: the gate placements of a builder.                          *)
(***************************************************************************)
EXTENDS Integers, Sequences, FiniteSets, TLC

\* ------------------------------------------------------------------ bounds

\* Parameter vectors are abstract candidates 0..MaxParam.
MaxParam == 1
\* Loss values are 0..MaxLoss.
MaxLoss == 1
\* The shot budget never exceeds MaxShots (guard of the objective steps).
MaxShots == 4
\* The two optimizer budgets (constructor argument `budget`, the maxiter option).
SmallBudget == 2
LargeBudget == 11
\* Number of fit calls in one behaviour, and of the set_circuit and
\* predict_proba calls that follow them.
MaxFits == 2
MaxOps == 1
\* Distinct label values 0..MaxLabel that a training set may hold.
MaxLabel == 2
\* Rows of a design matrix: the training set and a prediction input.
NbRows == 2

\* --------------------------------------------------------------- constants

\* Python's None (an absent attribute, nbshots for exact probabilities).
None == -1
\* __callback__ saves when __n_iter__ % 10 == 0.
SavePeriod == 10

Params == 0..MaxParam
Losses == 0..MaxLoss
\* np.inf: larger than every loss.
Inf == MaxLoss + 1

\* Method names are sequences of characters.
COBYLA == <<"C", "O", "B", "Y", "L", "A">>
cobyla == <<"c", "o", "b", "y", "l", "a">>
BFGS == <<"B", "F", "G", "S">>
Methods == {COBYLA, cobyla, BFGS}

UpperChars == <<"A", "B", "C", "F", "G", "L", "O", "S", "Y">>
LowerChars == <<"a", "b", "c", "f", "g", "l", "o", "s", "y">>

\* str.lower() on one character, then on a string.
LowerChar(c) ==
    IF \E i \in 1..Len(UpperChars) : UpperChars[i] = c
    THEN LowerChars[CHOOSE i \in 1..Len(UpperChars) : UpperChars[i] = c]
    ELSE c

Lower(s) == [i \in 1..Len(s) |-> LowerChar(s[i])]

\* Python's `s in t` for two strings: s is a substring of t.
StrIn(s, t) ==
    \E i \in 0..(Len(t) - Len(s)) : SubSeq(t, i + 1, i + Len(s)) = s

\* to_optimize: `if method == "COBYLA"` calls __callback__ itself.
CallbackInObjective(m) == m = COBYLA

\* fit: `if method.lower() not in ('cobyla')` installs the optimizer's hook;
\* ('cobyla') is the string, so `in` is the substring test.
HookInstalled(m) == ~StrIn(Lower(m), cobyla)

\* ---------------------------------------------------------------- circuits

\* A circuit object: its type, the recipe (make_circuit) it was built from,
\* and the object's identity.
Circuits ==
    [kind : {"circuitML"}, recipe : {0, 1}, id : {0, 1}]
    \cup {[kind |-> "other", recipe |-> 0, id |-> 0]}

NoCircuit == [kind |-> "absent", recipe |-> 0, id |-> 0]

\* circuitML.__ne__: two circuits differ iff their recipes differ.
CircuitNe(a, b) == a.recipe # b.recipe

\* Variant: the comparison with the bound circuit is missing.
verify_circuit_lax(bound, c) ==
    IF c.kind # "circuitML" THEN "TypeError" ELSE "ok"

\* Classifier.__verify_circuit__: the exception it raises, or "ok".
verify_circuit(bound, c) ==
    IF c.kind # "circuitML" THEN "TypeError"
    ELSE IF bound # NoCircuit /\ CircuitNe(bound, c) THEN "ValueError"
    ELSE "ok"

\* ------------------------------------------------------------------ policy

\* nbshots_increment: None (identity), a float (multiplicative, the factor
\* num/den), an int (additive) or a callable (user).
Policies ==
    {[kind |-> "identity", num |-> 1, den |-> 1, inc |-> 0],
     [kind |-> "multiplicative", num |-> 3, den |-> 2, inc |-> 0],
     [kind |-> "additive", num |-> 1, den |-> 1, inc |-> 1],
     [kind |-> "user", num |-> 1, den |-> 1, inc |-> 0]}

Delays == {1, 2}

\* The values a user function may return.
UserShots == {None, 1, MaxShots}

\* The arithmetic of the float and int lambdas raises TypeError on None.
PolicyRaises(p, K, shots, n) ==
    /\ p.kind \in {"multiplicative", "additive"}
    /\ n % K = 0
    /\ shots = None

\* Variant: the growth happens at the end of each period of K.
ApplyPolicyShifted(p, K, shots, n, u) ==
    CASE p.kind = "identity" -> shots
      [] p.kind = "multiplicative" ->
            IF n % K = K - 1 THEN (p.num * shots) \div p.den ELSE shots
      [] p.kind = "additive" ->
            IF n % K = K - 1 THEN shots + p.inc ELSE shots
      [] OTHER -> u

\* self.nbshots_increment(nbshots, n_iter, loss_value); u is what a user
\* function returns.
ApplyPolicy(p, K, shots, n, u) ==
    CASE p.kind = "identity" -> shots
      [] p.kind = "multiplicative" ->
            IF n % K = 0 THEN (p.num * shots) \div p.den ELSE shots
      [] p.kind = "additive" ->
            IF n % K = 0 THEN shots + p.inc ELSE shots
      [] OTHER -> u

\* ------------------------------------------------------------------- state

VARIABLES
    circuit,            \* self.circuit
    bitstr,             \* self.bitstr
    params,             \* self.params
    nbshots,            \* self.nbshots
    policy,             \* self.nbshots_increment
    delay,              \* self.nbshots_incr_delay
    budget,             \* self.__budget__
    save_path,          \* self.__save_path__ is set
    min_loss,           \* self.__min_loss__
    last_loss,          \* self.__last_loss_value__
    last_output,        \* self.__last_output__ (the candidate it came from)
    loss_progress,      \* self.__loss_progress__
    output_progress,    \* self.__output_progress__
    params_progress,    \* self.__params_progress__
    info,               \* self.__info__ : nfev and n_iter keys
    nfev,               \* self.nfev
    n_iter,             \* self.__n_iter__ (None when the attribute is absent)
    disk,               \* the checkpoint file: <<>> or <<its content>>
    trace,              \* the full-trace artifact: <<>> or <<its content>>
    last_rows,          \* the training index of each row of __last_output__
    pc,                 \* "idle" or "optimizing" (inside minimize)
    snap,               \* fit's local _nbshots
    method,             \* fit's local method
    save_loss,          \* fit's local save_loss_progress
    save_output,        \* fit's local save_output_progress
    ncalls,             \* objective calls of the current fit call
    outcome,            \* the last operation and how it ended
    pre,                \* params, nbshots, nfev at the entry of the last fit call
    best,               \* earliest lowest-loss candidate of the current call
    ncb,                \* callbacks of the current fit call
    nckpt,              \* checkpoints written by the current fit call
    wrote,              \* the last step wrote the checkpoint
    grew,               \* the policy changed nbshots in the current call
    finalx,             \* the optimizer's final reported iterate
    nfits,              \* fit calls so far
    nops,               \* set_circuit, prediction and placement calls so far
    arg,                \* the circuit or training vector the last call was given
    ran,                \* what the last call of circuit.run was given
    bitstr_arg,         \* the constructor's bitstr argument
    raw,                \* the matrix circuit.run returned to predict_proba
    proba,              \* the matrix predict_proba returned
    predicted,          \* the label vector predict returned
    nbqbits,            \* builder: self.nbqbits
    gates,              \* builder: the gates applied to the register, in order
    txt,                \* builder: self.__txt, one entry per appended piece
    gates_pre,          \* builder: gates at the entry of the last placement
    placed              \* builder: the last placement and its indices

engine ==
    <<circuit, bitstr, params, nbshots, policy, delay, budget, save_path,
      min_loss, last_loss, last_output, loss_progress, output_progress,
      params_progress, info, nfev, n_iter>>

frame == <<pc, snap, method, save_loss, save_output, ncalls>>

ghost ==
    <<outcome, pre, best, ncb, nckpt, wrote, grew, finalx, nfits, nops, arg,
      ran>>

\* The arguments and results of the constructor and of the prediction calls.
pure == <<bitstr_arg, raw, proba, predicted>>

\* A circuit builder (mqBuilder).
builder == <<nbqbits, gates, txt, gates_pre, placed>>

\* The full-trace record of training.
tracing == <<trace, last_rows>>

vars == <<engine, disk, tracing, frame, ghost, pure, builder>>

\* What a fit call finds at its entry.
Snapshot ==
    [params |-> params, nbshots |-> nbshots, nfev |-> nfev,
     hist |-> Len(loss_progress)]

NoArg == [circuit |-> NoCircuit, target |-> <<>>]

\* No call of circuit.run in the last step.
NoRun == [params |-> None, shots |-> None, div |-> None]

\* No placement on a builder yet.
NoPlacement == [gate |-> "none", idx |-> <<>>]

\* In the training model the constructor's argument and the prediction
\* matrices are absent.
PureAbsent ==
    /\ bitstr_arg = <<>>
    /\ raw = <<>>
    /\ proba = <<>>
    /\ predicted = <<>>

\* No builder is part of the training model.
BuilderAbsent ==
    /\ nbqbits = 0
    /\ gates = <<>>
    /\ txt = <<>>
    /\ gates_pre = <<>>
    /\ placed = NoPlacement

\* The constructor arguments tried. Every adaptation policy, with a finite
\* budget of two shots and with exact probabilities (None):
PolicyConfigs ==
    {c \in [bitstr : {<<0, 1>>}, nbshots : {None, 2}, policy : Policies,
            delay : Delays, budget : {SmallBudget}, save_path : {FALSE}] :
        c.policy.kind \in {"identity", "user"} => c.delay = 1}

\* and the identity policy with a save target: a two-class engine with either
\* optimizer budget and a three-class engine.
SaveConfigs ==
    {c \in [bitstr : {<<0, 1>>, <<3, 0, 1>>}, nbshots : {None, 2},
            policy : {p \in Policies : p.kind = "identity"}, delay : {1},
            budget : {SmallBudget, LargeBudget}, save_path : {TRUE}] :
        /\ c.bitstr = <<3, 0, 1>> => c.nbshots = None /\ c.budget = SmallBudget
        /\ c.bitstr = <<0, 1>> => c.nbshots = 2}

Configs == PolicyConfigs \cup SaveConfigs

\* Classifier.__init__: what the constructor sets besides its arguments, and
\* no call made yet.
Fresh ==
    /\ circuit = [kind |-> "circuitML", recipe |-> 0, id |-> 0]
    /\ params = 0
    /\ min_loss = Inf
    /\ last_loss = None
    /\ last_output = None
    /\ loss_progress = <<>>
    /\ output_progress = <<>>
    /\ params_progress = <<>>
    /\ info = [nfev |-> None, n_iter |-> None]
    /\ nfev = 0
    /\ n_iter = None
    /\ disk = <<>>
    /\ trace = <<>>
    /\ last_rows = <<>>
    /\ pc = "idle"
    /\ snap = None
    /\ method = BFGS
    /\ save_loss = FALSE
    /\ save_output = FALSE
    /\ ncalls = 0
    /\ outcome = "init"
    /\ best = [params |-> None, loss |-> Inf]
    /\ ncb = 0
    /\ nckpt = 0
    /\ wrote = FALSE
    /\ grew = FALSE
    /\ finalx = None
    /\ nfits = 0
    /\ nops = 0
    /\ arg = NoArg
    /\ ran = NoRun

\* Classifier.__init__: the state after construction.
Init ==
    /\ \E c \in Configs :
          /\ bitstr = c.bitstr
          /\ nbshots = c.nbshots
          /\ policy = c.policy
          /\ delay = c.delay
          /\ budget = c.budget
          /\ save_path = c.save_path
    /\ Fresh
    /\ pre = Snapshot
    /\ PureAbsent
    /\ BuilderAbsent

\* ----------------------------------------------------------------- helpers

\* Classifier.save: what pickle.dump writes (loss_progress only when
\* non-empty, which the empty sequence stands for; __info__ with its keys).
Checkpoint(p, lp, inf) ==
    [parameters |-> p, loss_progress |-> lp,
     nfev |-> inf.nfev, n_iter |-> inf.n_iter]

\* Variant: the save is one iteration late.
ShouldSaveOffByOne(n) == save_path /\ n % SavePeriod = 1

\* __callback__: `if self.__save_path__ and self.__n_iter__ % 10 == 0`.
ShouldSave(n) == save_path /\ n % SavePeriod = 0

\* Variant: fit saves before it returns.
SaveAtFinalizationAlways == TRUE

\* fit, after minimize returns: no call of self.save().
SaveAtFinalization == FALSE

\* Variant: the restoring assignment is missing.
RestoredShotsKept(saved, current) == current

\* fit: `self.nbshots = _nbshots`.
RestoredShots(saved, current) == saved

\* Variant: fit keeps the best-observed parameters.
FinalParamsBest(x, committed) == committed

\* fit: `self.set_params(mini_out.x.copy())`.
FinalParams(x, committed) == x

\* Variant: an equal loss replaces the commit.
ImprovesOrEqual(loss, m) == loss <= m

\* to_optimize: `if loss_value < self.__min_loss__`.
Improves(loss, m) == loss < m

\* to_optimize: np.random.choice(indices, size=batch_size, replace=False) with
\* the default batch size, the whole training set: an order of its indices.
Draws ==
    {d \in [1..NbRows -> 0..(NbRows - 1)] :
        \A i, j \in 1..NbRows : i # j => d[i] # d[j]}

\* np.argsort on distinct values: position k of the result is the place of
\* the k-th smallest value.
ArgSort(ind) ==
    [k \in 1..Len(ind) |->
        CHOOSE i \in 1..Len(ind) :
            Cardinality({j \in 1..Len(ind) : ind[j] < ind[i]}) = k - 1]

\* Variant: the rows stay in the order of the draw.
LastOutputRowsAsDrawn(ind) == ind

\* to_optimize: `probas[np.argsort(_indices)]`, where row i of probas was
\* computed from training row _indices[i]; a row is named by that index.
LastOutputRows(ind) == [k \in 1..Len(ind) |-> ind[ArgSort(ind)[k]]]

\* fit: the dict written to the file save_output_progress (the labels, a copy
\* of target_train, are left out).
TraceRecord(outputs, losses, parameters) ==
    [output |-> outputs, loss_value |-> losses, params |-> parameters]

\* Classifier.__callback__(params = xk, loss = save_loss, output = save_output),
\* run after params and __last_loss_value__ have their new values.
Callback(xk) ==
    /\ loss_progress' =
          IF save_loss \/ save_output
          THEN Append(loss_progress, last_loss') ELSE loss_progress
    /\ output_progress' =
          IF save_output
          THEN Append(output_progress,
                      [output |-> last_output', rows |-> last_rows'])
          ELSE output_progress
    /\ params_progress' =
          IF save_output
          THEN Append(params_progress, xk) ELSE params_progress
    /\ n_iter' = n_iter + 1
    /\ wrote' = ShouldSave(n_iter')
    /\ disk' =
          IF ShouldSave(n_iter')
          THEN <<Checkpoint(params', loss_progress', info)>> ELSE disk
    /\ nckpt' = IF ShouldSave(n_iter') THEN nckpt + 1 ELSE nckpt
    /\ ncb' = ncb + 1

NoCallback ==
    /\ UNCHANGED <<loss_progress, output_progress, params_progress, n_iter,
                   disk, nckpt, ncb>>
    /\ wrote' = FALSE

\* Variant: the circuit runs with the budget it had before the adaptation.
ShotsForRunStale(before, after) == before

\* to_optimize adapts self.nbshots (line 375) before predict_proba calls
\* run_circuit, which passes self.nbshots to circuit.run.
ShotsForRun(before, after) == after

\* predict_proba: `if self.nbshots:` divides by float(self.nbshots); None (and
\* 0) leave the counts undivided.
RunDivisor(shots) == IF shots # None /\ shots # 0 THEN shots ELSE None

\* Variant: run_circuit stores an explicit params override.
ParamsAfterRunStored(own, override) ==
    IF override = None THEN own ELSE override

\* run_circuit binds the local name params; self.params is not assigned.
ParamsAfterRun(own, override) == own

\* run_circuit: `if params is None: params = self.params`.
ParamsForRun(own, override) == IF override = None THEN own ELSE override

\* np.unique(target_train): the distinct labels of a training vector.
Unique(target) == {target[i] : i \in 1..Len(target)}

\* Variant: as many labels as classes are rejected too.
TooManyLabelsOrAsMany(labels) == Cardinality(labels) >= Len(bitstr)

\* fit: `if len(_labels) > len(self.bitstr)`.
TooManyLabels(labels) == Cardinality(labels) > Len(bitstr)

\* History recording is tried on the engine with the identity policy, a finite
\* shot budget and no save target.
LoggingTried ==
    policy.kind = "identity" /\ nbshots # None /\ ~save_path

\* Outside a fit call its locals and the bookkeeping of the call are gone.
FrameGone ==
    /\ snap' = None
    /\ method' = BFGS
    /\ save_loss' = FALSE
    /\ save_output' = FALSE
    /\ ncalls' = 0
    /\ pre' = Snapshot
    /\ best' = [params |-> None, loss |-> Inf]
    /\ ncb' = 0
    /\ nckpt' = 0
    /\ grew' = FALSE
    /\ finalx' = None

\* ----------------------------------------------------------------- actions

\* Classifier.set_circuit(c).
SetCircuit(c) ==
    /\ pc = "idle"
    /\ UNCHANGED <<pure, builder>>
    /\ UNCHANGED tracing
    /\ nops < MaxOps
    /\ nops' = nops + 1
    /\ arg' = [circuit |-> c, target |-> <<>>]
    /\ ran' = NoRun
    /\ LET r == verify_circuit(circuit, c) IN
          /\ circuit' = IF r = "ok" THEN c ELSE circuit
          /\ outcome' = IF r = "ok" THEN "set_circuit" ELSE r
    /\ wrote' = FALSE
    /\ UNCHANGED <<bitstr, params, nbshots, policy, delay, budget, save_path,
                   min_loss, last_loss, last_output, loss_progress,
                   output_progress, params_progress, info, nfev, n_iter>>
    /\ UNCHANGED <<disk, pc, nfits>>
    /\ FrameGone

\* Classifier.predict_proba(X, params = p) outside training (p = None: no
\* override); the backend may raise after nfev was incremented.
PredictProba(raises, p) ==
    /\ pc = "idle"
    /\ UNCHANGED <<pure, builder>>
    /\ UNCHANGED tracing
    /\ nops < MaxOps
    /\ nops' = nops + 1
    /\ arg' = NoArg
    /\ ran' = [params |-> ParamsForRun(params, p),
               shots |-> ShotsForRun(nbshots, nbshots),
               div |-> IF raises THEN None ELSE RunDivisor(nbshots)]
    /\ params' = ParamsAfterRun(params, p)
    /\ nfev' = nfev + 1
    /\ outcome' = IF raises THEN "predict_proba_raised" ELSE "predict_proba"
    /\ wrote' = FALSE
    /\ UNCHANGED <<circuit, bitstr, nbshots, policy, delay, budget,
                   save_path, min_loss, last_loss, last_output, loss_progress,
                   output_progress, params_progress, info, n_iter>>
    /\ UNCHANGED <<disk, pc, nfits>>
    /\ FrameGone

\* Classifier.predict(X) outside training: proba_to_label(predict_proba(X)).
Predict(raises) ==
    /\ pc = "idle"
    /\ UNCHANGED <<pure, builder>>
    /\ UNCHANGED tracing
    /\ nops < MaxOps
    /\ nops' = nops + 1
    /\ arg' = NoArg
    /\ ran' = [params |-> ParamsForRun(params, None),
               shots |-> ShotsForRun(nbshots, nbshots),
               div |-> IF raises THEN None ELSE RunDivisor(nbshots)]
    /\ params' = ParamsAfterRun(params, None)
    /\ nfev' = nfev + 1
    /\ outcome' = IF raises THEN "predict_raised" ELSE "predict"
    /\ wrote' = FALSE
    /\ UNCHANGED <<circuit, bitstr, nbshots, policy, delay, budget,
                   save_path, min_loss, last_loss, last_output, loss_progress,
                   output_progress, params_progress, info, n_iter>>
    /\ UNCHANGED <<disk, pc, nfits>>
    /\ FrameGone

\* fit, from its entry to the call of minimize (lines 352-407): snapshot of
\* nbshots, __n_iter__ = 0, the label check. The fit calls of a behaviour come
\* before its set_circuit and predict_proba calls, an engine with the long
\* optimizer budget is trained once, and a call that is not the last one
\* records the full trace only under COBYLA.
FitEnter(m, sl, so, target) ==
    /\ pc = "idle"
    /\ UNCHANGED <<pure, builder>>
    /\ UNCHANGED tracing
    /\ nfits < MaxFits
    /\ nops = 0
    /\ budget = LargeBudget => nfits = 0
    /\ (sl \/ so) => LoggingTried
    /\ so => (nfits = MaxFits - 1 \/ m = COBYLA)
    /\ nfits' = nfits + 1
    /\ arg' = [circuit |-> NoCircuit, target |-> target]
    /\ ran' = NoRun
    /\ pre' = Snapshot
    /\ snap' = nbshots
    /\ n_iter' = 0
    /\ method' = m
    /\ save_loss' = sl
    /\ save_output' = so
    /\ ncalls' = 0
    /\ best' = [params |-> None, loss |-> Inf]
    /\ ncb' = 0
    /\ nckpt' = 0
    /\ grew' = FALSE
    /\ wrote' = FALSE
    /\ finalx' = None
    /\ IF TooManyLabels(Unique(target))
       THEN pc' = "idle" /\ outcome' = "fit_label_error"
       ELSE pc' = "optimizing" /\ outcome' = "fit_entered"
    /\ UNCHANGED <<circuit, bitstr, params, nbshots, policy, delay, budget,
                   save_path, min_loss, last_loss, last_output, loss_progress,
                   output_progress, params_progress, info, nfev>>
    /\ UNCHANGED <<disk, nops>>

\* One call of to_optimize(cand) that returns loss; u is what a user policy
\* returns.
ObjectiveCall(cand, loss, u, draw) ==
    /\ pc = "optimizing"
    /\ UNCHANGED <<pure, builder>>
    /\ UNCHANGED trace
    /\ last_rows' = LastOutputRows(draw)
    /\ arg' = NoArg
    /\ ncalls < budget
    /\ ~PolicyRaises(policy, delay, nbshots, n_iter)
    /\ nbshots' = ApplyPolicy(policy, delay, nbshots, n_iter, u)
    /\ nbshots' <= MaxShots
    /\ grew' = (grew \/ nbshots' # nbshots)
    /\ ran' = [params |-> ParamsForRun(params, cand),
               shots |-> ShotsForRun(nbshots, nbshots'),
               div |-> RunDivisor(nbshots')]
    /\ nfev' = nfev + 1
    /\ last_loss' = loss
    /\ last_output' = cand
    /\ min_loss' = IF Improves(loss, min_loss) THEN loss ELSE min_loss
    /\ params' = IF Improves(loss, min_loss) THEN cand ELSE params
    /\ best' = IF loss < best.loss
               THEN [params |-> cand, loss |-> loss] ELSE best
    /\ ncalls' = ncalls + 1
    /\ IF CallbackInObjective(method) THEN Callback(cand) ELSE NoCallback
    /\ outcome' = "objective"
    /\ UNCHANGED <<circuit, bitstr, policy, delay, budget, save_path, info>>
    /\ UNCHANGED <<pc, snap, method, save_loss, save_output>>
    /\ UNCHANGED <<pre, finalx, nfits, nops>>

\* A call of to_optimize in which the policy's arithmetic raises (line 375):
\* the error propagates out of minimize and fit.
ObjectivePolicyError ==
    /\ pc = "optimizing"
    /\ UNCHANGED <<pure, builder>>
    /\ UNCHANGED tracing
    /\ arg' = NoArg
    /\ ran' = NoRun
    /\ PolicyRaises(policy, delay, nbshots, n_iter)
    /\ pc' = "idle"
    /\ outcome' = "fit_raised_policy"
    /\ wrote' = FALSE
    /\ UNCHANGED <<engine, disk>>
    /\ UNCHANGED <<snap, method, save_loss, save_output, ncalls>>
    /\ UNCHANGED <<pre, best, ncb, nckpt, grew, finalx, nfits, nops>>

\* A call of to_optimize in which circuit.run (or the loss) raises: nbshots
\* was adapted and nfev incremented, then the error propagates out of fit.
ObjectiveBackendError(u) ==
    /\ pc = "optimizing"
    /\ UNCHANGED <<pure, builder>>
    /\ UNCHANGED tracing
    /\ arg' = NoArg
    /\ ncalls < budget
    /\ ~PolicyRaises(policy, delay, nbshots, n_iter)
    /\ nbshots' = ApplyPolicy(policy, delay, nbshots, n_iter, u)
    /\ nbshots' <= MaxShots
    /\ grew' = (grew \/ nbshots' # nbshots)
    /\ ran' = [params |-> None,
               shots |-> ShotsForRun(nbshots, nbshots'),
               div |-> None]
    /\ nfev' = nfev + 1
    /\ pc' = "idle"
    /\ outcome' = "fit_raised_backend"
    /\ wrote' = FALSE
    /\ UNCHANGED <<circuit, bitstr, params, policy, delay, budget, save_path,
                   min_loss, last_loss, last_output, loss_progress,
                   output_progress, params_progress, info, n_iter>>
    /\ UNCHANGED <<disk, snap, method, save_loss, save_output, ncalls>>
    /\ UNCHANGED <<pre, best, ncb, nckpt, finalx, nfits, nops>>

\* minimize itself raises between two objective calls.
OptimizerError ==
    /\ pc = "optimizing"
    /\ UNCHANGED <<pure, builder>>
    /\ UNCHANGED tracing
    /\ arg' = NoArg
    /\ ran' = NoRun
    /\ pc' = "idle"
    /\ outcome' = "fit_raised_optimizer"
    /\ wrote' = FALSE
    /\ UNCHANGED <<engine, disk>>
    /\ UNCHANGED <<snap, method, save_loss, save_output, ncalls>>
    /\ UNCHANGED <<pre, best, ncb, nckpt, grew, finalx, nfits, nops>>

\* The optimizer's per-iteration hook: lambda xk: self.__callback__(xk, ...).
\* An optimizer reports an iteration only after a fresh objective call.
HookCallback(xk) ==
    /\ pc = "optimizing"
    /\ UNCHANGED <<pure, builder>>
    /\ UNCHANGED tracing
    /\ arg' = NoArg
    /\ ran' = NoRun
    /\ HookInstalled(method)
    /\ n_iter < ncalls
    /\ UNCHANGED <<params, last_loss, last_output>>
    /\ Callback(xk)
    /\ outcome' = "hook"
    /\ UNCHANGED <<circuit, bitstr, nbshots, policy, delay, budget, save_path,
                   min_loss, info, nfev>>
    /\ UNCHANGED frame
    /\ UNCHANGED <<pre, best, grew, finalx, nfits, nops>>

\* minimize returns mini_out with mini_out.x = x; fit runs to its end
\* (lines 411-434).
FitReturn(x) ==
    /\ pc = "optimizing"
    /\ UNCHANGED <<pure, builder>>
    /\ UNCHANGED last_rows
    /\ trace' = IF save_output
                THEN <<TraceRecord(output_progress, loss_progress,
                                   params_progress)>>
                ELSE trace
    /\ arg' = NoArg
    /\ ran' = NoRun
    /\ ncalls >= 1
    /\ finalx' = x
    /\ params' = FinalParams(x, params)
    /\ info' = [nfev |-> nfev, n_iter |-> n_iter]
    /\ n_iter' = None
    /\ output_progress' = IF save_output THEN <<>> ELSE output_progress
    /\ params_progress' = IF save_output THEN <<>> ELSE params_progress
    /\ nbshots' = RestoredShots(snap, nbshots)
    /\ wrote' = (SaveAtFinalization /\ save_path)
    /\ disk' = IF SaveAtFinalization /\ save_path
               THEN <<Checkpoint(params', loss_progress, info')>> ELSE disk
    /\ pc' = "idle"
    /\ outcome' = "fit_returned"
    /\ UNCHANGED <<circuit, bitstr, policy, delay, budget, save_path,
                   min_loss, last_loss, last_output, loss_progress, nfev>>
    /\ UNCHANGED <<snap, method, save_loss, save_output, ncalls>>
    /\ UNCHANGED <<pre, best, ncb, nckpt, grew, nfits, nops>>

\* Training vectors: <<0>>, <<0, 1>>, ... with every label once, and one
\* with a repeated label.
Targets ==
    {[i \in 1..n |-> i - 1] : n \in 1..(MaxLabel + 1)} \cup {<<0, 0>>}

\* What a user policy may return; the other policies ignore it.
UserReturns == IF policy.kind = "user" THEN UserShots ELSE {None}

Next ==
    \/ \E c \in Circuits : SetCircuit(c)
    \/ \E r \in BOOLEAN, p \in Params \cup {None} : PredictProba(r, p)
    \/ \E r \in BOOLEAN : Predict(r)
    \/ \E m \in Methods, sl \in BOOLEAN, so \in BOOLEAN, t \in Targets :
          FitEnter(m, sl, so, t)
    \/ \E cand \in Params, loss \in Losses, u \in UserReturns :
          \E draw \in Draws : ObjectiveCall(cand, loss, u, draw)
    \/ ObjectivePolicyError
    \/ \E u \in UserReturns : ObjectiveBackendError(u)
    \/ OptimizerError
    \/ \E xk \in Params : HookCallback(xk)
    \/ \E x \in Params : FitReturn(x)

Spec == Init /\ [][Next]_vars

\* ------------------------------------------- constructor and predictions

\* The model of the example has two qubits: the circuit returns one column
\* per bitstring, 2^NbQbits of them.
NbQbits == 2
NbColumns == 2 ^ NbQbits

\* The largest entry of a raw outcome matrix, and the longest bitstr list
\* given to the constructor.
MaxCount == 1
MaxBitstrLen == 2

\* One element of a bitstr argument: an int, a str or an object of another
\* type (a float).
IntElem(k) == [type |-> "int", int |-> k, str |-> <<>>]
StrElem(t) == [type |-> "str", int |-> 0, str |-> t]
OtherElem == [type |-> "other", int |-> 0, str |-> <<>>]

\* The binary strings of NbQbits characters.
BinaryStrings == [1..NbQbits -> {"0", "1"}]

BitstrElems ==
    {IntElem(k) : k \in 0..(NbColumns - 1)}
    \cup {StrElem(t) : t \in BinaryStrings}
    \cup {OtherElem}

BitstrArgs ==
    UNION {[1..n -> BitstrElems] : n \in 0..MaxBitstrLen}

\* The nbshots keyword: absent, or an int.
ShotsArgs == {None, 0, 2}

Digit(ch) == IF ch = "1" THEN 1 ELSE 0

RECURSIVE BinValueReversed(_)
\* Variant: the first character is the least significant one.
BinValueReversed(t) ==
    IF t = <<>> THEN 0
    ELSE Digit(t[1]) + 2 * BinValueReversed(Tail(t))

RECURSIVE BinValue(_)
\* int(bit, 2): the last character is the least significant one.
BinValue(t) ==
    IF t = <<>> THEN 0
    ELSE 2 * BinValue(SubSeq(t, 1, Len(t) - 1)) + Digit(t[Len(t)])

\* __init__, "Testing for bitstring validity": the exception raised or "ok".
\* bitstr[0] raises IndexError on an empty list.
BitstrCheck(b) ==
    IF Len(b) = 0 THEN "IndexError"
    ELSE IF b[1].type = "int"
    THEN IF \E i \in 1..Len(b) : b[i].type # "int"
         THEN "TypeError" ELSE "ok"
    ELSE IF b[1].type = "str"
    THEN IF \E i \in 1..Len(b) : b[i].type # "str"
         THEN "TypeError" ELSE "ok"
    ELSE "TypeError"

\* __init__: what self.bitstr is set to for a list that passed the validity test.
StoredBitstr(b) ==
    IF b[1].type = "int"
    THEN [i \in 1..Len(b) |-> b[i].int]
    ELSE [i \in 1..Len(b) |-> BinValue(b[i].str)]

\* __init__: `if nbshots is not None and nbshots < 1: nbshots = None`.
StoredShots(k) == IF k # None /\ k < 1 THEN None ELSE k

\* The matrices circuit.run may return: NbRows rows of NbColumns entries.
RawMatrices == [1..NbRows -> [1..NbColumns -> 0..MaxCount]]

\* predict_proba: `out / float(self.nbshots)` when self.nbshots is truthy. An
\* entry of the result is the fraction num/den.
Normalized(m, shots) ==
    [i \in 1..Len(m) |->
        [c \in 1..Len(m[i]) |->
            [num |-> m[i][c],
             den |-> IF RunDivisor(shots) = None THEN 1 ELSE shots]]]

\* Variant: the columns are returned in the circuit's order.
SelectColumnsPlain(m, bs) ==
    [i \in 1..Len(m) |-> [j \in 1..Len(bs) |-> m[i][j]]]

\* predict_proba: `out[:, self.bitstr]`; code c is column c + 1 here.
SelectColumns(m, bs) ==
    [i \in 1..Len(m) |-> [j \in 1..Len(bs) |-> m[i][bs[j] + 1]]]

\* predict_proba on the matrix m that circuit.run returned.
predict_proba(m, shots, bs) == SelectColumns(Normalized(m, shots), bs)

\* a < b for two fractions with positive denominators.
FracLess(a, b) == a.num * b.den < b.num * a.den

RECURSIVE ArgMaxLastFrom(_, _, _)
\* Variant: a later equal value replaces the index.
ArgMaxLastFrom(row, j, at) ==
    IF j > Len(row) THEN at
    ELSE ArgMaxLastFrom(row, j + 1,
                        IF ~FracLess(row[j], row[at]) THEN j ELSE at)

RECURSIVE ArgMaxFrom(_, _, _)
\* np.argmax on one row, scanning from position j with the best position so
\* far at `at`: only a strictly larger value replaces the index.
ArgMaxFrom(row, j, at) ==
    IF j > Len(row) THEN at
    ELSE ArgMaxFrom(row, j + 1, IF FracLess(row[at], row[j]) THEN j ELSE at)

\* proba_to_label: np.argmax(proba, axis=1), labels counted from 0.
proba_to_label(pr) ==
    [i \in 1..Len(pr) |-> ArgMaxFrom(pr[i], 2, 1) - 1]

\* The constructor is about to be called with a bitstr list and an nbshots
\* keyword (held in bitstr_arg and nbshots); the other keywords are absent.
CtorInit ==
    /\ \E b \in BitstrArgs : bitstr_arg = b
    /\ \E k \in ShotsArgs : nbshots = k
    /\ bitstr = <<>>
    /\ policy = [kind |-> "identity", num |-> 1, den |-> 1, inc |-> 0]
    /\ delay = 1
    /\ budget = SmallBudget
    /\ save_path = FALSE
    /\ Fresh
    /\ pre = Snapshot
    /\ raw = <<>>
    /\ proba = <<>>
    /\ predicted = <<>>
    /\ BuilderAbsent

\* Classifier.__init__(circuit, bitstr_arg, nbshots = nbshots): the bitstr
\* check and conversion (lines 73-85), then the nbshots normalisation.
Construct ==
    /\ outcome = "init"
    /\ LET r == BitstrCheck(bitstr_arg) IN
          /\ outcome' = IF r = "ok" THEN "constructed" ELSE r
          /\ bitstr' = IF r = "ok" THEN StoredBitstr(bitstr_arg) ELSE bitstr
          /\ nbshots' = IF r = "ok" THEN StoredShots(nbshots) ELSE nbshots
    /\ UNCHANGED <<circuit, params, policy, delay, budget, save_path,
                   min_loss, last_loss, last_output, loss_progress,
                   output_progress, params_progress, info, nfev, n_iter>>
    /\ UNCHANGED <<disk, tracing, frame, builder>>
    /\ UNCHANGED <<pre, best, ncb, nckpt, wrote, grew, finalx, nfits, nops,
                   arg, ran>>
    /\ UNCHANGED <<bitstr_arg, raw, proba, predicted>>

\* What one prediction call on a constructed engine does to the engine, when
\* circuit.run returns the matrix m.
RunOn(m) ==
    /\ outcome = "constructed"
    /\ nops < MaxOps
    /\ nops' = nops + 1
    /\ raw' = m
    /\ ran' = [params |-> ParamsForRun(params, None),
               shots |-> ShotsForRun(nbshots, nbshots),
               div |-> RunDivisor(nbshots)]
    /\ params' = ParamsAfterRun(params, None)
    /\ nfev' = nfev + 1
    /\ UNCHANGED <<circuit, bitstr, nbshots, policy, delay, budget,
                   save_path, min_loss, last_loss, last_output, loss_progress,
                   output_progress, params_progress, info, n_iter>>
    /\ UNCHANGED <<disk, tracing, frame, builder>>
    /\ UNCHANGED <<pre, best, ncb, nckpt, wrote, grew, finalx, nfits, arg>>
    /\ UNCHANGED bitstr_arg

\* Classifier.predict_proba(X) where circuit.run returns m.
PredictProbaOn(m) ==
    /\ RunOn(m)
    /\ proba' = predict_proba(m, nbshots, bitstr)
    /\ predicted' = <<>>
    /\ outcome' = "predict_proba"

\* Classifier.predict(X) where circuit.run returns m.
PredictOn(m) ==
    /\ RunOn(m)
    /\ proba' = predict_proba(m, nbshots, bitstr)
    /\ predicted' = proba_to_label(proba')
    /\ outcome' = "predict"

\* What circuit.run may return to a prediction call; no call is made on an
\* engine that is not constructed.
Returned == IF outcome = "constructed" THEN RawMatrices ELSE {}

CtorNext ==
    \/ Construct
    \/ \E m \in Returned : PredictProbaOn(m)
    \/ \E m \in Returned : PredictOn(m)

CtorSpec == CtorInit /\ [][CtorNext]_vars

\* ----------------------------------------------------------------- builder

\* Qubit counts 1..MaxQbits, at most MaxPlacements placement calls on one
\* builder, and index lists of at most MaxIdxList entries.
MaxQbits == 2
MaxPlacements == 2
MaxIdxList == 2

\* The indices a placement may be given: one below and one above the range of
\* the largest builder.
Indices == (0 - 1)..MaxQbits

IdxLists == UNION {[1..n -> Indices] : n \in 0..MaxIdxList}

\* circuitBuilder.__verify_index__: the index is in [0, nbqbits).
VerifyIndex(idx, n) == idx >= 0 /\ idx < n

\* One gate applied to the register (mq.SX, mq.RZ, mq.CZ, mq.fSIM); angles are
\* left out.
Gate(name, idx) == [gate |-> name, idx |-> idx]

\* A builder's accumulated state, and whether the call in progress raised.
BuilderState(g, t, e) == [gates |-> g, txt |-> t, err |-> e]

\* mqBuilder.__single_input(idx, theta) on the state st.
single_input(st, idx, n) ==
    IF ~VerifyIndex(idx, n)
    THEN BuilderState(st.gates, st.txt, TRUE)
    ELSE BuilderState(
             st.gates \o <<Gate("SX", <<idx>>), Gate("RZ", <<idx>>),
                           Gate("SX", <<idx>>)>>,
             Append(st.txt, Gate("SXRZSX", <<idx>>)),
             FALSE)

RECURSIVE input_list(_, _, _)
\* mqBuilder.input with a list: `for p, i in enumerate(idx)` calls
\* __single_input in turn; the first index that fails ends the loop.
input_list(st, idxs, n) ==
    IF idxs = <<>> THEN st
    ELSE LET nxt == single_input(st, Head(idxs), n) IN
             IF nxt.err THEN nxt ELSE input_list(nxt, Tail(idxs), n)

\* Variant: only the first index of a two-qubit gate is verified.
PairVerifiedFirst(a, b, n) == VerifyIndex(a, n)

\* cz and fsim: __verify_index__(a) then __verify_index__(b), before the gate.
PairVerified(a, b, n) == VerifyIndex(a, n) /\ VerifyIndex(b, n)

\* mqBuilder.cz(a, b) and mqBuilder.fsim(a, b, theta, phi) on the state st.
pair_gate(st, name, a, b, n) ==
    IF ~PairVerified(a, b, n)
    THEN BuilderState(st.gates, st.txt, TRUE)
    ELSE BuilderState(Append(st.gates, Gate(name, <<a, b>>)),
                      Append(st.txt, Gate(name, <<a, b>>)),
                      FALSE)

\* mqBuilder.__init__(nbqbits, batch_size): an empty register and text.
BuilderInit ==
    /\ nbqbits \in 1..MaxQbits
    /\ gates = <<>>
    /\ txt = <<>>
    /\ gates_pre = <<>>
    /\ placed = NoPlacement
    /\ bitstr = <<0, 1>>
    /\ nbshots = None
    /\ policy = [kind |-> "identity", num |-> 1, den |-> 1, inc |-> 0]
    /\ delay = 1
    /\ budget = SmallBudget
    /\ save_path = FALSE
    /\ Fresh
    /\ pre = Snapshot
    /\ PureAbsent

\* What every placement call does around its gates: st is the builder's state
\* when the call ends.
Placement(call, st) ==
    /\ nops' = nops + 1
    /\ placed' = call
    /\ gates_pre' = gates
    /\ gates' = st.gates
    /\ txt' = st.txt
    /\ outcome' = IF st.err THEN "OutOfRange" ELSE "placed"
    /\ UNCHANGED <<engine, disk, tracing, frame, pure, nbqbits>>
    /\ UNCHANGED <<pre, best, ncb, nckpt, wrote, grew, finalx, nfits, arg,
                   ran>>

\* mqBuilder.input(idx, theta) with one index.
Input(idx) ==
    /\ nops < MaxPlacements
    /\ Placement([gate |-> "input", idx |-> <<idx>>],
                 single_input(BuilderState(gates, txt, FALSE), idx, nbqbits))

\* mqBuilder.input(idx, theta) with a list of indices (and as many angles).
InputList(idxs) ==
    /\ nops < MaxPlacements
    /\ Placement([gate |-> "input_list", idx |-> idxs],
                 input_list(BuilderState(gates, txt, FALSE), idxs, nbqbits))

\* mqBuilder.cz(a, b).
Cz(a, b) ==
    /\ nops < MaxPlacements
    /\ Placement([gate |-> "cz", idx |-> <<a, b>>],
                 pair_gate(BuilderState(gates, txt, FALSE), "CZ", a, b, nbqbits))

\* mqBuilder.fsim(a, b, theta, phi).
Fsim(a, b) ==
    /\ nops < MaxPlacements
    /\ Placement([gate |-> "fsim", idx |-> <<a, b>>],
                 pair_gate(BuilderState(gates, txt, FALSE), "fSIM", a, b,
                           nbqbits))

BuilderNext ==
    \/ \E i \in Indices : Input(i)
    \/ \E l \in IdxLists : InputList(l)
    \/ \E a \in Indices, b \in Indices : Cz(a, b)
    \/ \E a \in Indices, b \in Indices : Fsim(a, b)

BuilderSpec == BuilderInit /\ [][BuilderNext]_vars

\* ------------------------------------------------------------------ claims

\* How a fit call that raised out of the optimizer ended.
RaisedInOptimizer ==
    {"fit_raised_policy", "fit_raised_backend", "fit_raised_optimizer"}

\* C1: when a fit call returns normally, nbshots equals the value it had
\* immediately before that call, under every adaptation policy.
ShotsRestoredOnReturn ==
    outcome = "fit_returned" => nbshots = pre.nbshots

\* A fit call returned after the additive policy grew the budget on each of
\* two iterations.
ShotsRestoredOnReturnWitness ==
    /\ outcome = "fit_returned"
    /\ policy.kind = "additive"
    /\ delay = 1
    /\ ncb = 2
    /\ grew
    /\ nbshots = pre.nbshots

\* C2: the shot budget is restored to its pre-training value whenever a
\* training call ends, also when an error of the backend or of the optimizer
\* propagates out of fit after the policy changed the budget.
ShotsRestoredWheneverFitEnds ==
    outcome \in {"fit_returned"} \cup RaisedInOptimizer =>
        nbshots = pre.nbshots

\* A step of set_circuit.
SetCircuitStep ==
    /\ nops' = nops + 1
    /\ outcome' \in {"set_circuit", "TypeError", "ValueError"}

\* C3: set_circuit with a circuit of a different recipe raises the
\* identity-conflict error (ValueError) and leaves the bound circuit and every
\* other field of the engine unchanged; with a circuit of the same recipe it
\* succeeds and the given circuit replaces the bound one.
RebindChecksRecipe ==
    [][(SetCircuitStep /\ arg'.circuit.kind = "circuitML") =>
          IF arg'.circuit.recipe # circuit.recipe
          THEN outcome' = "ValueError" /\ UNCHANGED <<engine, disk>>
          ELSE outcome' = "set_circuit" /\ circuit' = arg'.circuit]_vars

\* A rebinding to another recipe was rejected on an engine that has been
\* trained, and the bound circuit is still the one of construction.
RebindChecksRecipeWitness ==
    /\ outcome = "ValueError"
    /\ arg.circuit.recipe # circuit.recipe
    /\ circuit = [kind |-> "circuitML", recipe |-> 0, id |-> 0]
    /\ nfev > 0
    /\ loss_progress # <<>>

\* C4: when the optimizer finishes, fit sets the parameters to the optimizer's
\* final reported iterate, overwriting the best-observed parameters committed
\* during the call.
FinalIterateCommitted ==
    outcome = "fit_returned" => params = finalx

\* The final iterate was evaluated last with a loss strictly above the lowest
\* loss of the call, whose candidate had been committed.
FinalIterateCommittedWitness ==
    /\ outcome = "fit_returned"
    /\ params = finalx
    /\ last_output = finalx
    /\ best.params # finalx
    /\ best.loss < last_loss
    /\ min_loss = best.loss

\* C5: if the optimizer or an objective evaluation raises during a fit call,
\* the parameters afterwards are the candidate with the lowest loss among the
\* evaluations completed in that call, or the pre-call parameters if none
\* completed.
BestOfCallKeptOnError ==
    outcome \in RaisedInOptimizer =>
        params = IF ncalls = 0 THEN pre.params ELSE best.params

\* C6: at the first objective evaluation of every fit call the iteration
\* counter is 0, the minimum loss is +infinity and the progress logs hold no
\* entry of an earlier call.
TrainingStateResetAtEntry ==
    (pc = "optimizing" /\ ncalls = 0) =>
        /\ n_iter = 0
        /\ min_loss = Inf
        /\ loss_progress = <<>>
        /\ output_progress = <<>>
        /\ params_progress = <<>>

\* C7: for every method name the callback reaches the engine by exactly one
\* route, and with loss recording the call appends one entry per objective
\* evaluation under the single-point method (scipy lower-cases the name) and
\* one per reported iteration under any other.
OneCallbackRoute ==
    pc = "optimizing" =>
        /\ CallbackInObjective(method) # HookInstalled(method)
        /\ save_loss =>
              Len(loss_progress) - pre.hist =
                  IF Lower(method) = cobyla THEN ncalls ELSE ncb

\* A step of to_optimize that got as far as running the circuit.
ObjectiveStep == pc = "optimizing" /\ nfev' = nfev + 1

\* The budget after one growth of the additive or multiplicative policy.
Grown(p, shots) ==
    IF p.kind = "additive" THEN shots + p.inc
    ELSE (p.num * shots) \div p.den

CheckpointAtFinalization ==
    (outcome = "fit_returned" /\ save_path) =>
        disk = <<[parameters |-> params, loss_progress |-> loss_progress,
                  nfev |-> nfev, n_iter |-> ncb]>>

\* C9 amended: with a save target, finalization writes no checkpoint; a fit
\* call that completes n iterations wrote n div 10 checkpoints, each at a
\* callback whose iteration count is a multiple of 10.
CheckpointOnlyEveryTenth ==
    (outcome = "fit_returned" /\ save_path) =>
        ~wrote /\ nckpt = ncb \div SavePeriod

\* A fit call returned after 11 iterations: its one checkpoint was written at
\* iteration 10 and holds other parameters than the final ones.
CheckpointOnlyEveryTenthWitness ==
    /\ outcome = "fit_returned"
    /\ save_path
    /\ ncb > SavePeriod
    /\ ncb % SavePeriod # 0
    /\ nckpt = 1
    /\ Len(disk) = 1
    /\ disk[1].parameters # params
    /\ disk[1].n_iter = None

\* C10: a fit call whose training labels hold more distinct values than bitstr
\* has entries, and no other, fails at entry with the cardinality error: no
\* objective evaluation happens, and parameters, shot budget and evaluation
\* count are as before the call.
TooManyLabelsFailFast ==
    outcome \in {"fit_entered", "fit_label_error"} =>
        /\ outcome = "fit_label_error" <=>
              Cardinality({arg.target[i] : i \in DOMAIN arg.target})
                  > Len(bitstr)
        /\ outcome = "fit_label_error" =>
              /\ pc = "idle"
              /\ ncalls = 0
              /\ params = pre.params
              /\ nbshots = pre.nbshots
              /\ nfev = pre.nfev

\* A second fit call on a trained two-class engine was given three labels.
TooManyLabelsFailFastWitness ==
    /\ outcome = "fit_label_error"
    /\ Len(bitstr) = 2
    /\ Cardinality({arg.target[i] : i \in DOMAIN arg.target}) = 3
    /\ nfev > 0
    /\ nfits = 2

\* The integer each binary string of two characters stands for.
BinaryCode ==
    (<<"0", "0">> :> 0) @@ (<<"0", "1">> :> 1)
    @@ (<<"1", "0">> :> 2) @@ (<<"1", "1">> :> 3)

AllOfType(b, t) == \A i \in 1..Len(b) : b[i].type = t

\* A prediction call has returned.
Predicted == outcome \in {"predict_proba", "predict"}

\* C11: constructing an engine with a malformed bitstr list (an empty list, a
\* list mixing ints and binary strings whichever comes first, a list of
\* elements that are neither) fails with the type-mismatch error (TypeError);
\* a well-formed list of binary strings is stored as the list of their integer
\* values in the same order.
MalformedBitstrIsTypeError ==
    outcome # "init" =>
        /\ (Len(bitstr_arg) = 0
               \/ ~(AllOfType(bitstr_arg, "int") \/ AllOfType(bitstr_arg, "str")))
              => outcome = "TypeError"
        /\ (Len(bitstr_arg) > 0 /\ AllOfType(bitstr_arg, "str")) =>
              /\ outcome \in {"constructed", "predict_proba", "predict"}
              /\ bitstr = [i \in 1..Len(bitstr_arg) |->
                              BinaryCode[bitstr_arg[i].str]]

\* C12: predict_proba returns a matrix whose column j is column bitstr[j] of
\* the raw matrix, divided by the shot budget when it is finite and undivided
\* when it is null, for every row, and reordering the input rows reorders the
\* result alike.
ProbaColumnsFollowBitstr ==
    Predicted =>
        /\ Len(proba) = Len(raw)
        /\ \A i \in 1..Len(raw) :
              /\ Len(proba[i]) = Len(bitstr)
              /\ \A j \in 1..Len(bitstr) :
                    proba[i][j] =
                        [num |-> raw[i][bitstr[j] + 1],
                         den |-> IF nbshots = None THEN 1 ELSE nbshots]
        /\ predict_proba([i \in 1..Len(raw) |-> raw[Len(raw) + 1 - i]],
                         nbshots, bitstr)
              = [i \in 1..Len(raw) |-> proba[Len(raw) + 1 - i]]

\* predict_proba returned columns 3 and 0 of two different rows of counts,
\* divided by two shots.
ProbaColumnsFollowBitstrWitness ==
    /\ outcome = "predict_proba"
    /\ bitstr = <<3, 0>>
    /\ nbshots = 2
    /\ raw[1] = <<0, 1, 1, 1>>
    /\ raw[2] = <<1, 0, 0, 0>>
    /\ proba[1] = <<[num |-> 1, den |-> 2], [num |-> 0, den |-> 2]>>
    /\ proba[2] = <<[num |-> 0, den |-> 2], [num |-> 1, den |-> 2]>>

\* C13: the label predict returns for a row is the index of the largest
\* predicted probability of that row, the lowest such index when several
\* classes share the largest value.
ArgMaxLowestIndex ==
    outcome = "predict" =>
        /\ Len(predicted) = Len(proba)
        /\ \A i \in 1..Len(proba) :
              LET l == predicted[i] + 1 IN
                  /\ l \in 1..Len(proba[i])
                  /\ \A k \in 1..Len(proba[i]) :
                        ~FracLess(proba[i][l], proba[i][k])
                  /\ \A k \in 1..(l - 1) :
                        FracLess(proba[i][k], proba[i][l])

\* predict returned label 0 for a row whose two classes tie at the largest
\* value and label 1 for a row whose second class is larger.
ArgMaxLowestIndexWitness ==
    /\ outcome = "predict"
    /\ Len(bitstr) = 2
    /\ proba[1][1] = proba[1][2]
    /\ proba[1][1].num > 0
    /\ predicted[1] = 0
    /\ FracLess(proba[2][1], proba[2][2])
    /\ predicted[2] = 1

\* The int list corresponding to a list of binary strings.
CodesOf(b) == [i \in 1..Len(b) |-> IntElem(BinaryCode[b[i].str])]

\* C14: an engine declared with binary strings holds the same stored codes as
\* one declared with the corresponding integer codes (["00","01"] and [0,1]),
\* and for the same raw outcomes its predict_proba and predict results are
\* those of that engine.
BinaryStringsAsCodes ==
    (outcome # "init" /\ Len(bitstr_arg) > 0 /\ AllOfType(bitstr_arg, "str")) =>
        /\ BitstrCheck(CodesOf(bitstr_arg)) = "ok"
        /\ bitstr = StoredBitstr(CodesOf(bitstr_arg))
        /\ Predicted =>
              proba = predict_proba(raw, nbshots,
                                    StoredBitstr(CodesOf(bitstr_arg)))
        /\ outcome = "predict" =>
              predicted =
                  proba_to_label(predict_proba(raw, nbshots,
                                     StoredBitstr(CodesOf(bitstr_arg))))

\* The engine of the example, declared with ["00", "01"], holds [0, 1] and
\* predicted both labels.
BinaryStringsAsCodesWitness ==
    /\ outcome = "predict"
    /\ bitstr_arg = <<StrElem(<<"0", "0">>), StrElem(<<"0", "1">>)>>
    /\ bitstr = <<0, 1>>
    /\ predicted = <<0, 1>>

\* C15: during the optimizing phase of a fit call, after every objective
\* evaluation the recorded minimum loss is the minimum of the losses of all
\* objective evaluations of this call and the committed parameters are the
\* candidate of the earliest evaluation that attained it (an equal loss does
\* not replace the commit).
BestOfCallCommitted ==
    (pc = "optimizing" /\ outcome = "objective") =>
        /\ min_loss = best.loss
        /\ params = best.params

\* C16: each invocation of the end-of-iteration callback increments the
\* iteration counter by exactly one, and a checkpoint is written during that
\* invocation iff a save target is configured and the counter after the
\* increment is a positive multiple of 10; with no save target no checkpoint
\* is written during training.
CheckpointEveryTenthCallback ==
    [][/\ ncb' = ncb + 1 =>
             /\ n_iter' = n_iter + 1
             /\ (nckpt' = nckpt + 1) <=>
                   (save_path /\ n_iter' > 0 /\ n_iter' % 10 = 0)
             /\ nckpt' \in {nckpt, nckpt + 1}
             /\ nckpt' = nckpt => disk' = disk
             /\ nckpt' = nckpt + 1 =>
                   disk' = <<Checkpoint(params', loss_progress', info')>>
       /\ (pc = "optimizing" /\ ~save_path) =>
             /\ disk' = disk
             /\ ~wrote']_vars

\* The tenth callback of a fit call has just written the call's first
\* checkpoint.
CheckpointEveryTenthCallbackWitness ==
    /\ pc = "optimizing"
    /\ save_path
    /\ wrote
    /\ n_iter = 10
    /\ ncb = 10
    /\ nckpt = 1
    /\ disk = <<Checkpoint(params, loss_progress, info)>>

\* The sum of a row of the normalized outcome matrix of the last run, as a
\* fraction: execution with k shots returns rows summing to k, execution with
\* a null budget returns probabilities summing to 1.
RowSum ==
    [num |-> IF ran.shots \in {None, 0} THEN 1 ELSE ran.shots,
     den |-> IF ran.div = None THEN 1 ELSE ran.div]

\* C17: within one objective call the shot budget is adapted before the
\* circuit is executed, and the budget passed to the execution is the value
\* the returned counts are divided by, so every row of the normalized outcome
\* matrix sums to 1, also on a call where the policy changed the budget.
NormalizedRowsSumToOne ==
    (pc = "optimizing" /\ outcome = "objective") =>
        /\ ran.shots = nbshots
        /\ ran.shots \notin {None, 0} => ran.div = ran.shots
        /\ RowSum.num = RowSum.den

\* The first objective call of a fit call grew the budget from 2 to 3 shots
\* and ran and divided with 3.
NormalizedRowsSumToOneWitness ==
    /\ pc = "optimizing"
    /\ outcome = "objective"
    /\ policy.kind = "multiplicative"
    /\ ncalls = 1
    /\ grew
    /\ pre.nbshots = 2
    /\ ran.shots = 3
    /\ ran.div = 3

\* A step of predict_proba or predict outside a training call.
PredictStep ==
    /\ pc = "idle"
    /\ nops' = nops + 1
    /\ outcome' \in {"predict_proba", "predict_proba_raised",
                     "predict", "predict_raised"}

\* C18: outside a training call predict_proba and predict leave the engine
\* unchanged: the committed parameters (also when a params override is
\* passed), the shot budget, the minimum loss, the last loss and output and all
\* progress logs are as before; only nfev changes, by exactly one per call.
PredictionsOnlyCountEvaluations ==
    [][PredictStep =>
          /\ nfev' = nfev + 1
          /\ UNCHANGED <<circuit, bitstr, params, nbshots, policy, delay,
                         budget, save_path, min_loss, last_loss, last_output,
                         loss_progress, output_progress, params_progress,
                         info, n_iter, disk>>]_vars

\* On a trained engine with a loss history, predict_proba ran the circuit
\* with an override that differs from the committed parameters.
PredictionsOnlyCountEvaluationsWitness ==
    /\ outcome = "predict_proba"
    /\ ran.params # params
    /\ ran.params # None
    /\ nfev > 1
    /\ min_loss < Inf
    /\ loss_progress # <<>>

\* The gates a placement applies when it succeeds: fixed gate, rotation, fixed
\* gate on each index of an input placement in the order given, one two-qubit
\* gate for cz and for fsim.
ExpectedGates(call) ==
    CASE call.gate \in {"input", "input_list"} ->
            [k \in 1..(3 * Len(call.idx)) |->
                [gate |-> IF (k - 1) % 3 = 1 THEN "RZ" ELSE "SX",
                 idx |-> <<call.idx[((k - 1) \div 3) + 1]>>]]
      [] call.gate = "cz" -> <<[gate |-> "CZ", idx |-> call.idx]>>
      [] call.gate = "fsim" -> <<[gate |-> "fSIM", idx |-> call.idx]>>
      [] OTHER -> <<>>

\* C19: every gate placement of the builder (input on one index or on a list
\* of indices, cz, fsim) given an index outside [0, nbqbits) fails with the
\* out-of-range condition, and every placement whose indices are all in range
\* succeeds and appends its gates to the sequence in call order.
PlacementsValidateIndices ==
    outcome \in {"placed", "OutOfRange"} =>
        /\ outcome = "OutOfRange" <=>
              \E k \in DOMAIN placed.idx :
                  placed.idx[k] \notin 0..(nbqbits - 1)
        /\ outcome = "placed" =>
              gates = gates_pre \o ExpectedGates(placed)

\* On a two-qubit builder that holds a cz gate, an input placement on the
\* list [1, 0] succeeded and appended its six gates after it.
PlacementsValidateIndicesWitness ==
    /\ outcome = "placed"
    /\ nbqbits = 2
    /\ placed = [gate |-> "input_list", idx |-> <<1, 0>>]
    /\ gates_pre = <<[gate |-> "CZ", idx |-> <<0, 1>>]>>
    /\ Len(gates) = 7
    /\ gates[2].idx = <<1>>
    /\ gates[7].idx = <<0>>

\* C20: a builder placement that fails its index validation leaves the
\* accumulated gate sequence exactly as it was before the call, for cz and
\* fsim with one valid and one invalid index and for input called with a list
\* in which a later index is out of range.
FailedPlacementAppliesNothing ==
    outcome = "OutOfRange" => gates = gates_pre

\* C21: if the shot budget is null at the entry of a fit call, it stays null at
\* every objective evaluation of that call under the identity, additive and
\* multiplicative policies, and the call does not fail because of the policy.
NullBudgetStaysNull ==
    (pre.nbshots = None
        /\ policy.kind \in {"identity", "additive", "multiplicative"}) =>
        /\ pc = "optimizing" => nbshots = None
        /\ outcome # "fit_raised_policy"

\* C22: after any sequence of fit calls with full-trace recording, the three
\* per-iteration lists written to the artifact (outputs, parameter vectors,
\* loss values) have the same length, the number of callbacks of that call, and
\* each recorded output matrix lists its rows in ascending training-set index
\* order whatever order the minibatch draw produced.
FullTraceInLockstep ==
    (outcome = "fit_returned" /\ save_output) =>
        /\ Len(trace) = 1
        /\ Len(trace[1].output) = ncb
        /\ Len(trace[1].params) = ncb
        /\ Len(trace[1].loss_value) = ncb
        /\ \A k \in 1..Len(trace[1].output) :
              LET r == trace[1].output[k].rows IN
                  \A i, j \in 1..Len(r) : i < j => r[i] < r[j]

====
